---- MODULE Spec2Model ----
(***************************************************************************)
(* A model of xcd, the colorizing hexdump utility (src/xcd.c): the byte    *)
(* source that concatenates the input files, the palette assignment, the   *)
(* three line renderers and the zero-line autoskip logic.                  *)
(*                                                                         *)
(* The program is sequential.  Its state is the `state' struct, the file   *)
(* scope globals, the locals of the dump functions and what has been       *)
(* written to stdout and stderr.  One action is one iteration of one of    *)
(* the program's loops (or one straight-line block between two loops).     *)
(***************************************************************************)
EXTENDS Integers, Sequences, FiniteSets, TLC

(***************************************************************************)
(* Program constants.                                                      *)
(***************************************************************************)
INT_MAX == 2147483647

EOF == -1

EXIT_FAILURE == 1

EXIT_SUCCESS == 0

DefaultLineSize == 16

DefaultGroupSize == 2

MaxLineSize == 255

INT_MIN == (-INT_MAX) - 1

\* The domain of the type `byte' (unsigned char).
Byte == 0 .. 255

\* isprint() and isgraph() of <ctype.h>; the program never calls setlocale(),
\* so both are those of the "C" locale.
isprint(ch) == ch >= 32 /\ ch <= 126

\* An isgraph() that takes the bytes above 126 for graphic.
isgraph_high(ch) == ch >= 33

isgraph(ch) == ch >= 33 /\ ch <= 126

\* The color index palette, in order of preference (256 entries, C index i is
\* colorset[i + 1] here).
colorset ==
  <<
    8, 11, 53, 202, 87, 9, 41, 217, 32, 222, 57, 214, 126, 191, 88, 148,
    94, 219, 22, 228, 121, 4, 3, 23, 30, 179, 14, 13, 195, 12, 225, 123,
    230, 27, 159, 10, 207, 165, 50, 227, 235, 200, 45, 82, 213, 197, 47, 255,
    20, 190, 93, 229, 236, 33, 220, 129, 49, 160, 39, 198, 118, 199, 48, 208,
    63, 154, 81, 52, 171, 194, 17, 224, 40, 206, 86, 237, 189, 203, 83, 19,
    254, 1, 221, 177, 2, 117, 18, 158, 212, 124, 183, 28, 122, 204, 34, 153,
    193, 69, 205, 84, 238, 218, 192, 99, 119, 135, 209, 75, 223, 85, 215, 56,
    155, 164, 58, 44, 161, 184, 26, 76, 105, 166, 120, 141, 210, 239, 111, 156,
    211, 147, 216, 157, 92, 42, 162, 38, 112, 163, 43, 172, 128, 29, 253, 54,
    178, 24, 55, 64, 188, 89, 35, 25, 130, 80, 125, 70, 170, 185, 240, 252,
    62, 77, 5, 167, 152, 6, 182, 37, 187, 91, 142, 116, 136, 176, 31, 186,
    90, 106, 127, 36, 100, 251, 59, 74, 134, 79, 149, 169, 241, 68, 113, 168,
    78, 98, 173, 7, 242, 146, 61, 151, 71, 131, 181, 60, 110, 150, 175, 65,
    115, 140, 180, 95, 104, 114, 174, 250, 243, 73, 133, 143, 67, 107, 132, 72,
    97, 137, 66, 96, 101, 249, 145, 248, 109, 139, 144, 247, 103, 108, 138, 246,
    245, 102, 245, 102, 245, 102, 245, 102, 245, 102, 245, 102, 245, 102, 245, 102
  >>


(***************************************************************************)
(* The arithmetic of the type `int' (32 bits, two's complement).  A signed *)
(* overflow is undefined in C; IntAdd gives the wrapped value the usual    *)
(* builds compute, and the places where it can happen say so.              *)
(***************************************************************************)
IntAdd(a, b) ==
  IF b > 0 /\ a > INT_MAX - b THEN (a - INT_MAX - 1) + (b - INT_MAX - 1)
  ELSE IF b < 0 /\ a < INT_MIN - b THEN (a + INT_MAX + 1) + (b + INT_MAX + 1)
  ELSE a + b

IntOverflows(a, b) == (b > 0 /\ a > INT_MAX - b) \/ (b < 0 /\ a < INT_MIN - b)

\* C's division truncates toward zero (b > 0 here).
IntDiv(a, b) ==
  IF a >= 0 THEN a \div b
  ELSE IF a + b > 0 THEN 0
  ELSE -(((-(a + b)) \div b) + 1)

(***************************************************************************)
(* The input files.  A file is [kind, data]: data holds the bytes fgetc()  *)
(* delivers before it returns EOF, and kind says how the C library treats  *)
(* the name:                                                               *)
(*   "file"     fopen() succeeds, the data end with a plain end of file    *)
(*   "noent"    fopen() fails                                              *)
(*   "ioerr"    fopen() succeeds, the data end with a read error           *)
(*   "closeerr" as "file", and fclose() fails                              *)
(*   "stdin"    the name "-": standard input                               *)
(***************************************************************************)
FileKinds == {"file", "noent", "ioerr", "closeerr", "stdin"}

(***************************************************************************)
(* The machine: every operator below takes the program's whole state as a  *)
(* record m and returns the state after the code it models.                *)
(***************************************************************************)

\* A fail() that reports the file and leaves the exit code alone.
fail_report(m) ==
  [m EXCEPT !.err = Append(@, IF m.filenames <= Len(m.files) THEN m.filenames ELSE 0)]

\* fail(): report the current file on stderr, set the exit code.
fail(m) ==
  [m EXCEPT !.err = Append(@, IF m.filenames <= Len(m.files) THEN m.filenames ELSE 0),
            !.exitcode = EXIT_FAILURE]

\* An inputinit() that gives up at a file that cannot be opened (return 0
\* for return inputinit(s)).
inputinit_stop(m) ==
  IF m.currentfile = 0
  THEN IF m.filenames > Len(m.files)
       THEN [ret |-> 0, m |-> m]
       ELSE LET o == [m EXCEPT !.opened = Append(@, m.filenames)] IN
            IF m.files[m.filenames].kind # "noent"
            THEN [ret |-> 1,
                  m |-> [o EXCEPT !.currentfile = m.filenames,
                                  !.fpos = 0, !.ferror = FALSE]]
            ELSE [ret |-> 0, m |-> [fail(o) EXCEPT !.filenames = @ + 1]]
  ELSE [ret |-> 1, m |-> m]

\* inputinit(): open the current input file if none is open; a file that
\* cannot be opened is reported and the next one is tried.
RECURSIVE inputinit(_)
inputinit(m) ==
  IF m.currentfile = 0
  THEN IF m.filenames > Len(m.files)
       THEN [ret |-> 0, m |-> m]
       ELSE LET o == [m EXCEPT !.opened = Append(@, m.filenames)] IN
            IF m.files[m.filenames].kind # "noent"
            THEN [ret |-> 1,
                  m |-> [o EXCEPT !.currentfile = m.filenames,
                                  !.fpos = 0, !.ferror = FALSE]]
            ELSE inputinit([fail(o) EXCEPT !.filenames = @ + 1])
  ELSE [ret |-> 1, m |-> m]

\* fgetc() on the open file: the next byte, or EOF (at the end of the data,
\* with the stream's error indicator set when the read failed).
fgetc(m) ==
  LET f == m.files[m.currentfile] IN
  IF m.fpos < Len(f.data)
  THEN [ch |-> f.data[m.fpos + 1], m |-> [m EXCEPT !.fpos = @ + 1]]
  ELSE [ch |-> EOF, m |-> [m EXCEPT !.ferror = (f.kind = "ioerr")]]

\* An inputupdate() that passes over the file after the one it closes
\* (filenames += 2 for ++filenames).
inputupdate_skip(m) ==
  LET f  == m.files[m.currentfile]
      m1 == IF m.ferror THEN fail(m)
            ELSE IF f.kind # "stdin" /\ f.kind = "closeerr" THEN fail(m)
            ELSE m
  IN [m1 EXCEPT !.currentfile = 0, !.filenames = @ + 2]

\* inputupdate(): close the current file, reporting a read or close error.
inputupdate(m) ==
  LET f  == m.files[m.currentfile]
      m1 == IF m.ferror THEN fail(m)
            ELSE IF f.kind # "stdin" /\ f.kind = "closeerr" THEN fail(m)
            ELSE m
  IN [m1 EXCEPT !.currentfile = 0, !.filenames = @ + 1]

\* A nextbyte() that returns EOF at the end of each file (no loop).
nextbyte_once(m) ==
  LET i == inputinit(m) IN
  IF i.ret = 0
  THEN [ch |-> EOF, m |-> i.m]
  ELSE LET g == fgetc(i.m) IN
       IF g.ch # EOF THEN g ELSE [ch |-> EOF, m |-> inputupdate(g.m)]

\* nextbyte(): the next byte of the concatenated input, or EOF.
RECURSIVE nextbyte(_)
nextbyte(m) ==
  LET i == inputinit(m) IN
  IF i.ret = 0
  THEN [ch |-> EOF, m |-> i.m]
  ELSE LET g == fgetc(i.m) IN
       IF g.ch # EOF THEN g ELSE nextbyte(inputupdate(g.m))

\* A getbyterepresentation() whose test for the C1 controls takes in 160
\* (ch <= 160 for ch < 160).
getbyterepresentation_c1(useunicode, ch) ==
  IF useunicode
  THEN IF ch < 32 THEN <<226, 144, 128 + ch>>
       ELSE IF ch = 32 THEN <<226, 144, 160>>
       ELSE IF ch < 127 THEN <<ch>>
       ELSE IF ch = 127 THEN <<226, 144, 161>>
       ELSE IF ch <= 160 THEN <<226, 144, 166>>
       ELSE <<192 + (ch \div 64), 128 + (ch % 64)>>
  ELSE <<IF isprint(ch) THEN ch ELSE 46>>

(***************************************************************************)
(* getbyterepresentation(): the string shown for a byte in the text        *)
(* column, as the sequence of the bytes written to buf.                    *)
(***************************************************************************)
getbyterepresentation(useunicode, ch) ==
  IF useunicode
  THEN IF ch < 32 THEN <<226, 144, 128 + ch>>
       ELSE IF ch = 32 THEN <<226, 144, 160>>
       ELSE IF ch < 127 THEN <<ch>>
       ELSE IF ch = 127 THEN <<226, 144, 161>>
       ELSE IF ch < 160 THEN <<226, 144, 166>>
       ELSE IF ch = 160 THEN <<226, 144, 163>>
       ELSE <<192 + (ch \div 64), 128 + (ch % 64)>>
  ELSE <<IF isprint(ch) THEN ch ELSE 46>>

(***************************************************************************)
(* What the program writes.  stdout (out) is the sequence of the lines     *)
(* written, each a record of the pieces the printf() calls produce:        *)
(*   [kind |-> "line", color, label, hex, pad, text]   a hexdump line      *)
(*   [kind |-> "star"]                                 the line "*"        *)
(*   [kind |-> "bytes", cells]                         a chunk of raw mode *)
(*                                                     and the reset (sgr0) *)
(*                                                     printed after it    *)
(* label is the eight digits of "%08X", a cell of hex is one "%02X" with   *)
(* the space that may precede it and (in color) the color set before it,   *)
(* pad is the width x given to "%*s" (StarWidth(x) blanks are written),    *)
(* and a cell of text is one glyph with its color.                         *)
(***************************************************************************)

\* "%08X" of a non-negative int: its eight hexadecimal digits.
Hex8(n) ==
  [i \in 1 .. 8 |->
     LET d == 8 - i IN
     (n \div (IF d = 0 THEN 1 ELSE 16 ^ d)) % 16]

\* "%02X" of a byte.
Hex2(b) == <<b \div 16, b % 16>>

\* "%*s" of the empty string with width x: x blanks, and for a negative x
\* (the "-" flag with width -x) -x blanks.
StarWidth(x) == IF x >= 0 THEN x ELSE -x

\* byte palette[256], all zero at the start, is kept as the function from
\* the byte values that have been written to what was written: palette[ch]
\* is 0 for every other ch.
paletteat(p, ch) == IF ch \in DOMAIN p THEN p[ch] ELSE 0

\* A store of the value that means unassigned, whatever the color.
palettestore_zero(p, ch, v) == (ch :> 0) @@ p

\* palette[ch] = v
palettestore(p, ch, v) == (ch :> v) @@ p

\* An assignment without the test of palette[ch].
assigncolor_always(m, ch) ==
  [m EXCEPT !.palette = palettestore(@, ch, colorset[m.nextcolorfromset + 1]),
            !.nextcolorfromset = @ + 1]

\* if (!palette[ch]) palette[ch] = colorset[nextcolorfromset++];
assigncolor(m, ch) ==
  IF paletteat(m.palette, ch) = 0
  THEN [m EXCEPT !.palette = palettestore(@, ch, colorset[m.nextcolorfromset + 1]),
                 !.nextcolorfromset = @ + 1]
  ELSE m

\* renderbytescolored(): the loop over the bytes of the chunk; r is the
\* machine with the local i and the cells written.
RECURSIVE renderbytescolored_for(_, _, _)
renderbytescolored_for(r, buf, count) ==
  IF r.i >= count THEN r
  ELSE LET ch == buf[r.i + 1] IN
       IF ~isgraph(ch)
       THEN renderbytescolored_for(
              [r EXCEPT !.i = @ + 1,
                        !.cells = Append(@, [colored |-> FALSE, byte |-> ch])],
              buf, count)
       ELSE LET m1 == assigncolor(r.m, ch) IN
            renderbytescolored_for(
              [m |-> m1,
               i |-> r.i + 1,
               cells |-> Append(r.cells,
                           [colored |-> TRUE, color |-> paletteat(m1.palette, ch),
                            glyph |-> getbyterepresentation(m1.useunicode, ch)])],
              buf, count)

renderbytescolored(m, buf, count) ==
  LET r == renderbytescolored_for([m |-> m, i |-> 0, cells |-> <<>>], buf, count) IN
  [r.m EXCEPT !.out = Append(@, [kind |-> "bytes", cells |-> r.cells])]

\* The number of i in 0 .. count-1 with i % groupsize == 0: how often the
\* loops below write a blank and decrement x.
Groups(count, groupsize) ==
  Cardinality({i \in 0 .. count - 1 : i % groupsize = 0})

\* renderlineuncolored(): one line of the hexdump without colors.
renderlineuncolored(m, buf, count, pos) ==
  LET x == (m.hexwidth - 2 * count) - Groups(count, m.groupsize) IN
  [m EXCEPT !.out = Append(@,
     [kind  |-> "line",
      color |-> FALSE,
      label |-> Hex8(pos),
      hex   |-> [i \in 1 .. count |->
                   [sep |-> ((i - 1) % m.groupsize = 0),
                    digits |-> Hex2(buf[i])]],
      pad   |-> x,
      text  |-> [i \in 1 .. count |->
                   [glyph |-> getbyterepresentation(m.useunicode, buf[i])]]])]

\* renderlinecolored(): the first loop (the hex column); r is the machine
\* with the locals i and x and the cells written.
RECURSIVE renderlinecolored_hex(_, _, _)
renderlinecolored_hex(r, buf, count) ==
  IF r.i >= count THEN r
  ELSE LET ch  == buf[r.i + 1]
           sep == (r.i % r.m.groupsize = 0)
           m1  == assigncolor(r.m, ch)
       IN renderlinecolored_hex(
            [m |-> m1,
             i |-> r.i + 1,
             x |-> IF sep THEN r.x - 1 ELSE r.x,
             cells |-> Append(r.cells,
                         [sep |-> sep, color |-> paletteat(m1.palette, ch),
                          digits |-> Hex2(ch)])],
            buf, count)

\* renderlinecolored(): the second loop (the text column); r is the machine
\* with the local i and the cells written.
RECURSIVE renderlinecolored_text(_, _, _)
renderlinecolored_text(r, buf, count) ==
  IF r.i >= count THEN r
  ELSE LET ch == buf[r.i + 1]
           m1 == assigncolor(r.m, ch)
       IN renderlinecolored_text(
            [m |-> m1,
             i |-> r.i + 1,
             cells |-> Append(r.cells,
                         [color |-> paletteat(m1.palette, ch),
                          glyph |-> getbyterepresentation(m1.useunicode, ch)])],
            buf, count)

\* renderlinecolored(): one line of the hexdump in colors.
renderlinecolored(m, buf, count, pos) ==
  LET h == renderlinecolored_hex(
             [m |-> m, i |-> 0, x |-> m.hexwidth - 2 * count, cells |-> <<>>],
             buf, count)
      t == renderlinecolored_text([m |-> h.m, i |-> 0, cells |-> <<>>], buf, count)
  IN [t.m EXCEPT !.out = Append(@,
        [kind  |-> "line",
         color |-> TRUE,
         label |-> Hex8(pos),
         hex   |-> h.cells,
         pad   |-> h.x,
         text  |-> t.cells])]

\* dumpline(): one line in the requested format; nothing for an empty one.
dumpline(m, buf, count, pos) ==
  IF count # 0
  THEN IF ~m.hexoutput THEN renderbytescolored(m, buf, count)
       ELSE IF m.colorize THEN renderlinecolored(m, buf, count, pos)
       ELSE renderlineuncolored(m, buf, count, pos)
  ELSE m

\* static byte zeroline[256];
zeroline == [i \in 1 .. 256 |-> 0]

\* dumpzerolines(): the loop of the count <= 2 case.
RECURSIVE dumpzerolines_for(_, _, _, _)
dumpzerolines_for(m, count, pos, i) ==
  IF i >= count THEN m
  ELSE dumpzerolines_for(
         dumpline(m, zeroline, m.linesize, pos + i * m.linesize),
         count, pos, i + 1)

\* A dumpzerolines() that takes a new color for the zero byte each time it
\* is called (palette[0] = colorset[nextcolorfromset++]).
dumpzerolines_recolor(m, count, pos) ==
  LET c == IF m.colorize THEN assigncolor_always(m, 0) ELSE m IN
  IF count > 2
  THEN [dumpline(c, zeroline, c.linesize, pos) EXCEPT
          !.out = Append(@, [kind |-> "star"])]
  ELSE dumpzerolines_for(c, count, pos, 0)

\* A dumpzerolines() that prints a "*" for each line it leaves out.
dumpzerolines_each(m, count, pos) ==
  IF count > 2
  THEN [dumpline(m, zeroline, m.linesize, pos) EXCEPT
          !.out = @ \o [i \in 1 .. count - 1 |-> [kind |-> "star"]]]
  ELSE dumpzerolines_for(m, count, pos, 0)

\* A dumpzerolines() that elides two lines as well (count > 1 for count > 2).
dumpzerolines_two(m, count, pos) ==
  IF count > 1
  THEN [dumpline(m, zeroline, m.linesize, pos) EXCEPT
          !.out = Append(@, [kind |-> "star"])]
  ELSE dumpzerolines_for(m, count, pos, 0)

\* dumpzerolines(): count lines of zero bytes; three or more are shown as
\* the first one and a "*".
dumpzerolines(m, count, pos) ==
  IF count > 2
  THEN [dumpline(m, zeroline, m.linesize, pos) EXCEPT
          !.out = Append(@, [kind |-> "star"])]
  ELSE dumpzerolines_for(m, count, pos, 0)

(***************************************************************************)
(* The dump functions.  The locals of dumpfiles() and of                   *)
(* dumpfileswithautoskip() (line, ch, n, nonzero, linesheld, lastheldsize, *)
(* holdpos) are fields of the machine; line holds the bytes of line[] that *)
(* have been written so far (the rest of the array is uninitialized).      *)
(***************************************************************************)

\* The value of an uninitialized byte of line[], should one ever be read.
Indeterminate == 0 - 1

\* The first count bytes of line[].
linebuf(m, count) ==
  [i \in 1 .. count |-> IF i <= Len(m.line) THEN m.line[i] ELSE Indeterminate]

\* line[n] = ch
linestore(line, n, ch) ==
  IF n + 1 <= Len(line) THEN [line EXCEPT ![n + 1] = ch] ELSE Append(line, ch)

\* The bitwise or of two non-negative ints.
RECURSIVE BitOr(_, _)
BitOr(a, b) ==
  IF a = 0 THEN b
  ELSE IF b = 0 THEN a
  ELSE (IF a % 2 = 1 \/ b % 2 = 1 THEN 1 ELSE 0) + 2 * BitOr(a \div 2, b \div 2)

\* A dumpfiles() whose inner loop reads one byte past the limit
\* (maxinputlen >= 0 for maxinputlen > 0).
RECURSIVE dumpfiles_for_over(_)
dumpfiles_for_over(m) ==
  IF m.n < m.linesize /\ m.maxinputlen >= 0
  THEN LET r == nextbyte(m) IN
       IF r.ch = EOF
       THEN [r.m EXCEPT !.ch = EOF]
       ELSE dumpfiles_for_over([r.m EXCEPT !.ch = r.ch,
                                           !.line = linestore(@, m.n, r.ch),
                                           !.maxinputlen = @ - 1,
                                           !.n = @ + 1])
  ELSE m

\* dumpfiles(): the inner loop, which reads the bytes of one line.
RECURSIVE dumpfiles_for(_)
dumpfiles_for(m) ==
  IF m.n < m.linesize /\ m.maxinputlen > 0
  THEN LET r == nextbyte(m) IN
       IF r.ch = EOF
       THEN [r.m EXCEPT !.ch = EOF]
       ELSE dumpfiles_for([r.m EXCEPT !.ch = r.ch,
                                      !.line = linestore(@, m.n, r.ch),
                                      !.maxinputlen = @ - 1,
                                      !.n = @ + 1])
  ELSE m

\* dumpfiles(): one iteration of the outer loop (or its end).
dumpfiles_while(m) ==
  IF m.ch # EOF /\ m.maxinputlen > 0
  THEN LET r == dumpfiles_for([m EXCEPT !.n = 0]) IN
       IF r.n = 0
       THEN [r EXCEPT !.pc = "done"]
       ELSE [dumpline(r, linebuf(r, r.n), r.n, r.pos) EXCEPT
               !.pos = IntAdd(@, r.n)]
  ELSE [m EXCEPT !.pc = "done"]

\* A dumpfileswithautoskip() whose inner loop ends at the end of each file
\* (the byte source gives EOF there).
RECURSIVE dumpfileswithautoskip_for_file(_)
dumpfileswithautoskip_for_file(m) ==
  IF m.n < m.linesize /\ m.maxinputlen > 0
  THEN LET r == nextbyte_once(m) IN
       IF r.ch = EOF
       THEN [r.m EXCEPT !.ch = EOF]
       ELSE dumpfileswithautoskip_for_file(
              [r.m EXCEPT !.ch = r.ch,
                          !.line = linestore(@, m.n, r.ch),
                          !.nonzero = BitOr(@, r.ch),
                          !.maxinputlen = @ - 1,
                          !.n = @ + 1])
  ELSE m

\* dumpfileswithautoskip(): the inner loop, which reads the bytes of one
\* line and notes whether one of them is not zero.
RECURSIVE dumpfileswithautoskip_for(_)
dumpfileswithautoskip_for(m) ==
  IF m.n < m.linesize /\ m.maxinputlen > 0
  THEN LET r == nextbyte(m) IN
       IF r.ch = EOF
       THEN [r.m EXCEPT !.ch = EOF]
       ELSE dumpfileswithautoskip_for(
              [r.m EXCEPT !.ch = r.ch,
                          !.line = linestore(@, m.n, r.ch),
                          !.nonzero = BitOr(@, r.ch),
                          !.maxinputlen = @ - 1,
                          !.n = @ + 1])
  ELSE m

\* A dumpfileswithautoskip() that advances pos by a full line (pos += linesize
\* for pos += n).
dumpfileswithautoskip_line_full(r) ==
  LET d == IF r.nonzero # 0
           THEN LET z == IF r.linesheld # 0
                         THEN [dumpzerolines(r, r.linesheld, r.holdpos) EXCEPT
                                 !.linesheld = 0]
                         ELSE r
                IN dumpline(z, linebuf(z, z.n), z.n, z.pos)
           ELSE [r EXCEPT !.holdpos = IF r.linesheld = 0 THEN r.pos ELSE @,
                          !.linesheld = @ + 1,
                          !.lastheldsize = r.n]
  IN [d EXCEPT !.pos = IntAdd(@, r.linesize)]

\* A dumpfileswithautoskip() that takes every held line for the first of
\* its run (holdpos = pos without the test of linesheld).
dumpfileswithautoskip_line_hold(r) ==
  LET d == IF r.nonzero # 0
           THEN LET z == IF r.linesheld # 0
                         THEN [dumpzerolines(r, r.linesheld, r.holdpos) EXCEPT
                                 !.linesheld = 0]
                         ELSE r
                IN dumpline(z, linebuf(z, z.n), z.n, z.pos)
           ELSE [r EXCEPT !.holdpos = r.pos,
                          !.linesheld = @ + 1,
                          !.lastheldsize = r.n]
  IN [d EXCEPT !.pos = IntAdd(@, r.n)]

\* if (nonzero) { ... } else { ... } pos += n;
dumpfileswithautoskip_line(r) ==
  LET d == IF r.nonzero # 0
           THEN LET z == IF r.linesheld # 0
                         THEN [dumpzerolines(r, r.linesheld, r.holdpos) EXCEPT
                                 !.linesheld = 0]
                         ELSE r
                IN dumpline(z, linebuf(z, z.n), z.n, z.pos)
           ELSE [r EXCEPT !.holdpos = IF r.linesheld = 0 THEN r.pos ELSE @,
                          !.linesheld = @ + 1,
                          !.lastheldsize = r.n]
  IN [d EXCEPT !.pos = IntAdd(@, r.n)]

\* dumpfileswithautoskip(): one iteration of the outer loop (or its end).
dumpfileswithautoskip_while(m) ==
  IF m.ch # EOF /\ m.maxinputlen > 0
  THEN LET r == dumpfileswithautoskip_for([m EXCEPT !.n = 0, !.nonzero = 0]) IN
       IF r.n = 0
       THEN [r EXCEPT !.pc = "held"]
       ELSE dumpfileswithautoskip_line(r)
  ELSE [m EXCEPT !.pc = "held"]

\* A dumpfileswithautoskip() that shows the last held line as one more line
\* of the run (linesheld for linesheld - 1, and no line of its own).
dumpfileswithautoskip_end_run(m) ==
  IF m.linesheld # 0
  THEN [dumpzerolines(m, m.linesheld, m.holdpos) EXCEPT !.pc = "done"]
  ELSE [m EXCEPT !.pc = "done"]

\* A dumpfileswithautoskip() that shows the last held line as a full line
\* (linesize for lastheldsize).
dumpfileswithautoskip_end_full(m) ==
  IF m.linesheld # 0
  THEN LET z == dumpzerolines(m, m.linesheld - 1, m.holdpos) IN
       [dumpline(z, zeroline, z.linesize,
                 z.pos - z.lastheldsize) EXCEPT !.pc = "done"]
  ELSE [m EXCEPT !.pc = "done"]

\* dumpfileswithautoskip(): after the loop, the lines still held.
dumpfileswithautoskip_end(m) ==
  IF m.linesheld # 0
  THEN LET z == dumpzerolines(m, m.linesheld - 1, m.holdpos) IN
       [dumpline(z, linebuf(z, z.lastheldsize), z.lastheldsize,
                 z.pos - z.lastheldsize) EXCEPT !.pc = "done"]
  ELSE [m EXCEPT !.pc = "done"]

\* A dump() that reports the end of the input before the starting point as
\* a failure.
dump_for_fail(m) ==
  LET r == nextbyte(m) IN
  IF r.ch = EOF
  THEN [fail(r.m) EXCEPT !.pc = "done"]
  ELSE [r.m EXCEPT !.pos = IntAdd(@, 1)]

\* A dump() that tries again when the input ends before the starting point.
dump_for_stall(m) ==
  LET r == nextbyte(m) IN
  IF r.ch = EOF
  THEN r.m
  ELSE [r.m EXCEPT !.pos = IntAdd(@, 1)]

\* dump(): one iteration of the loop that skips to the starting point.
dump_for(m) ==
  LET r == nextbyte(m) IN
  IF r.ch = EOF
  THEN [r.m EXCEPT !.pc = "done"]
  ELSE [r.m EXCEPT !.pos = IntAdd(@, 1)]

\* dump(): the call of the dump function, whose locals are initialized.
dump_call(m) ==
  [m EXCEPT !.pc = IF m.autoskip THEN "dumpfileswithautoskip" ELSE "dumpfiles",
            !.ch = 0, !.n = 0, !.nonzero = 0, !.line = <<>>,
            !.linesheld = 0, !.lastheldsize = 0, !.holdpos = 0]

\* An initoutput() that gives byte 0 the first color and leaves the next
\* color to assign the first one (no nextcolorfromset = 1).
initoutput_first(m) ==
  IF ~m.colorize THEN [m EXCEPT !.pc = "dump"]
  ELSE IF ~m.term256 THEN [m EXCEPT !.pc = "exit", !.exitcode = EXIT_FAILURE]
  ELSE [m EXCEPT !.palette = palettestore(@, 0, colorset[0 + 1]),
                 !.pc = "dump"]

\* initoutput(): with colors, a terminal that lacks them ends the program;
\* otherwise byte 0 is given the first color.
initoutput(m) ==
  IF ~m.colorize THEN [m EXCEPT !.pc = "dump"]
  ELSE IF ~m.term256 THEN [m EXCEPT !.pc = "exit", !.exitcode = EXIT_FAILURE]
  ELSE [m EXCEPT !.palette = palettestore(@, 0, colorset[0 + 1]),
                 !.nextcolorfromset = 1,
                 !.pc = "dump"]

\* The 2 * linesize + (linesize + groupsize - 1) / groupsize of
\* parsecommandline().  The sum overflows for a group size near INT_MAX,
\* which is undefined: the outcomes are the wrapped value and the exact one.
hexwidths(linesize, groupsize) ==
  IF IntOverflows(linesize, groupsize) \/ IntOverflows(linesize + groupsize, -1)
  THEN {2 * linesize + IntDiv(IntAdd(IntAdd(linesize, groupsize), -1), groupsize),
        2 * linesize + 1}
  ELSE {2 * linesize + IntDiv(linesize + groupsize - 1, groupsize)}

(***************************************************************************)
(* parsecommandline(): the states the program can be in when the options   *)
(* have been read.  o gives the options: c, g, s, l (0, 2, 0 and INT_MAX   *)
(* when absent), the flags a, N, R, A, the files named, and whether the    *)
(* terminal has the 256 colors and the sequences initoutput() asks for.    *)
(* No state when the options make the program die.                         *)
(***************************************************************************)
parsecommandline(o) ==
  IF o.R /\ o.N THEN {}
  ELSE LET linesize  == IF o.c = 0 THEN DefaultLineSize ELSE o.c
           groupsize == IF o.g = 0 THEN linesize ELSE o.g
       IN {[files |-> o.files, term256 |-> o.term256,
            startoffset |-> o.s, limit |-> o.l,
            maxinputlen |-> o.l, filenames |-> 1, currentfile |-> 0,
            fpos |-> 0, ferror |-> FALSE, opened |-> <<>>,
            autoskip |-> IF o.R THEN FALSE ELSE o.a,
            linesize |-> linesize, groupsize |-> groupsize,
            exitcode |-> EXIT_SUCCESS,
            hexoutput |-> ~o.R, colorize |-> ~o.N, useunicode |-> ~o.A,
            hexwidth |-> hw,
            palette |-> <<>>, nextcolorfromset |-> 0,
            out |-> <<>>, err |-> <<>>,
            pc |-> "initoutput", pos |-> 0,
            ch |-> 0, n |-> 0, nonzero |-> 0, line |-> <<>>,
            linesheld |-> 0, lastheldsize |-> 0, holdpos |-> 0]
           : hw \in hexwidths(linesize, groupsize)}

(***************************************************************************)
(* The state machine.                                                      *)
(***************************************************************************)
VARIABLES
  files, term256,                                   \* the environment
  startoffset, limit, maxinputlen, filenames,       \* the state struct
  currentfile, fpos, ferror, opened,                \*   and its FILE
  autoskip, linesize, groupsize, exitcode,          \* the globals
  hexoutput, colorize, useunicode, hexwidth,
  palette, nextcolorfromset,
  out, err,                                         \* stdout, stderr
  pc, pos,                                          \* where the program is
  ch, n, nonzero, line,                             \* the dump functions'
  linesheld, lastheldsize, holdpos                  \*   locals

vars ==
  <<files, term256, startoffset, limit, maxinputlen, filenames, currentfile,
    fpos, ferror, opened, autoskip, linesize, groupsize, exitcode, hexoutput,
    colorize, useunicode, hexwidth, palette, nextcolorfromset, out, err, pc,
    pos, ch, n, nonzero, line, linesheld, lastheldsize, holdpos>>

\* The program's state as one record.
Machine ==
  [files |-> files, term256 |-> term256, startoffset |-> startoffset,
   limit |-> limit, maxinputlen |-> maxinputlen, filenames |-> filenames,
   currentfile |-> currentfile, fpos |-> fpos, ferror |-> ferror,
   opened |-> opened, autoskip |-> autoskip, linesize |-> linesize,
   groupsize |-> groupsize, exitcode |-> exitcode, hexoutput |-> hexoutput,
   colorize |-> colorize, useunicode |-> useunicode, hexwidth |-> hexwidth,
   palette |-> palette, nextcolorfromset |-> nextcolorfromset,
   out |-> out, err |-> err, pc |-> pc, pos |-> pos, ch |-> ch, n |-> n,
   nonzero |-> nonzero, line |-> line, linesheld |-> linesheld,
   lastheldsize |-> lastheldsize, holdpos |-> holdpos]

\* The program starts in state m.
Start(m) ==
  /\ files = m.files /\ term256 = m.term256
  /\ startoffset = m.startoffset /\ limit = m.limit
  /\ maxinputlen = m.maxinputlen /\ filenames = m.filenames
  /\ currentfile = m.currentfile /\ fpos = m.fpos /\ ferror = m.ferror
  /\ opened = m.opened /\ autoskip = m.autoskip /\ linesize = m.linesize
  /\ groupsize = m.groupsize /\ exitcode = m.exitcode
  /\ hexoutput = m.hexoutput /\ colorize = m.colorize
  /\ useunicode = m.useunicode /\ hexwidth = m.hexwidth
  /\ palette = m.palette /\ nextcolorfromset = m.nextcolorfromset
  /\ out = m.out /\ err = m.err /\ pc = m.pc /\ pos = m.pos
  /\ ch = m.ch /\ n = m.n /\ nonzero = m.nonzero /\ line = m.line
  /\ linesheld = m.linesheld /\ lastheldsize = m.lastheldsize
  /\ holdpos = m.holdpos

\* The program goes to state m.
Goto(m) ==
  /\ files' = m.files /\ term256' = m.term256
  /\ startoffset' = m.startoffset /\ limit' = m.limit
  /\ maxinputlen' = m.maxinputlen /\ filenames' = m.filenames
  /\ currentfile' = m.currentfile /\ fpos' = m.fpos /\ ferror' = m.ferror
  /\ opened' = m.opened /\ autoskip' = m.autoskip /\ linesize' = m.linesize
  /\ groupsize' = m.groupsize /\ exitcode' = m.exitcode
  /\ hexoutput' = m.hexoutput /\ colorize' = m.colorize
  /\ useunicode' = m.useunicode /\ hexwidth' = m.hexwidth
  /\ palette' = m.palette /\ nextcolorfromset' = m.nextcolorfromset
  /\ out' = m.out /\ err' = m.err /\ pc' = m.pc /\ pos' = m.pos
  /\ ch' = m.ch /\ n' = m.n /\ nonzero' = m.nonzero /\ line' = m.line
  /\ linesheld' = m.linesheld /\ lastheldsize' = m.lastheldsize
  /\ holdpos' = m.holdpos

\* main() calls initoutput().
InitOutput == pc = "initoutput" /\ \E m \in {initoutput(Machine)} : Goto(m)

\* dump() skips one byte of the start offset.
DumpSkip ==
  pc = "dump" /\ pos < startoffset /\ \E m \in {dump_for(Machine)} : Goto(m)

\* dump() is at the starting point and calls the dump function.
DumpCall ==
  pc = "dump" /\ ~(pos < startoffset) /\ \E m \in {dump_call(Machine)} : Goto(m)

\* dumpfiles() reads and shows one line, or ends.
DumpFiles == pc = "dumpfiles" /\ \E m \in {dumpfiles_while(Machine)} : Goto(m)

\* dumpfileswithautoskip() reads one line and shows or holds it, or ends
\* its loop.
DumpFilesWithAutoskip ==
  /\ pc = "dumpfileswithautoskip"
  /\ \E m \in {dumpfileswithautoskip_while(Machine)} : Goto(m)

\* dumpfileswithautoskip() shows the lines still held at the end.
DumpHeld ==
  pc = "held" /\ \E m \in {dumpfileswithautoskip_end(Machine)} : Goto(m)

\* main() returns exitcode.
MainReturn == pc = "done" /\ \E m \in {[Machine EXCEPT !.pc = "exit"]} : Goto(m)

Next ==
  \/ InitOutput
  \/ DumpSkip
  \/ DumpCall
  \/ DumpFiles
  \/ DumpFilesWithAutoskip
  \/ DumpHeld
  \/ MainReturn

\* One step of the program from state m: what the action enabled in m does.
step(m) ==
  CASE m.pc = "initoutput" -> initoutput(m)
    [] m.pc = "dump" -> IF m.pos < m.startoffset THEN dump_for(m) ELSE dump_call(m)
    [] m.pc = "dumpfiles" -> dumpfiles_while(m)
    [] m.pc = "dumpfileswithautoskip" -> dumpfileswithautoskip_while(m)
    [] m.pc = "held" -> dumpfileswithautoskip_end(m)
    [] m.pc = "done" -> [m EXCEPT !.pc = "exit"]

\* main(): the program run from state m to its exit.
RECURSIVE main(_)
main(m) == IF m.pc = "exit" THEN m ELSE main(step(m))

(***************************************************************************)
(* The inputs of the checks.                                               *)
(***************************************************************************)

\* The sequences over S of length at most k.
SeqsUpTo(S, k) == UNION {[1 .. j -> S] : j \in 0 .. k}

\* The options that are absent.
NoOptions ==
  [c |-> 0, g |-> DefaultGroupSize, s |-> 0, l |-> INT_MAX, a |-> FALSE,
   N |-> FALSE, R |-> FALSE, A |-> FALSE, files |-> <<>>, term256 |-> TRUE]

\* k zero bytes.
Zeros(k) == [i \in 1 .. k |-> 0]

(***************************************************************************)
(* Spec: runs of zero lines.  One file of zero and non-zero bytes, dumped  *)
(* without colors with and without --autoskip, from every start offset and *)
(* with every limit within the bounds; and the two examples of the         *)
(* specification, at 16 bytes per line.                                    *)
(***************************************************************************)
MaxZeroLen == 7

MaxZeroLine == 2

MaxZeroStart == 1

MaxZeroLimit == 4

ZeroBytes == {0, 65}

ZeroOptions ==
  {[NoOptions EXCEPT !.c = c, !.s = s, !.l = l, !.a = a, !.N = TRUE,
                     !.files = <<[kind |-> "file", data |-> d]>>]
     : c \in 1 .. MaxZeroLine, s \in 0 .. MaxZeroStart,
       l \in (0 .. MaxZeroLimit) \cup {INT_MAX}, a \in BOOLEAN,
       d \in SeqsUpTo(ZeroBytes, MaxZeroLen)}

ExampleOptions ==
  {[NoOptions EXCEPT !.a = TRUE, !.N = TRUE,
                     !.files = <<[kind |-> "file", data |-> d]>>]
     : d \in {Zeros(16 * 3 + 4), Zeros(16 * 5) \o <<65>>}}

Init == \E o \in ZeroOptions \cup ExampleOptions : \E m \in parsecommandline(o) : Start(m)

Spec == Init /\ [][Next]_vars

(***************************************************************************)
(* What the properties are stated in: the logical stream and the dump as   *)
(* a reader sees it.                                                       *)
(***************************************************************************)

\* The bytes a file contributes to the stream: none when it cannot be opened.
Contents(f) == IF f.kind = "noent" THEN <<>> ELSE f.data

\* The concatenation of the contents of the files fs.
RECURSIVE Concat(_)
Concat(fs) == IF fs = <<>> THEN <<>> ELSE Contents(Head(fs)) \o Concat(Tail(fs))

\* The logical stream, and the offset at which the dump ends: the end of the
\* stream or of the limit, whichever comes first.
Stream == Concat(files)

RangeEnd ==
  IF Len(Stream) <= startoffset THEN Len(Stream)
  ELSE IF limit >= Len(Stream) - startoffset THEN Len(Stream)
  ELSE startoffset + limit

\* The bytes of the stream at offsets a .. b-1.
Slice(a, b) == SubSeq(Stream, a + 1, b)

IsZero(bytes) == \A i \in 1 .. Len(bytes) : bytes[i] = 0

\* The number a label shows, and the bytes a line's hex column shows.
LabelValue(label) ==
  label[1] * 268435456 + label[2] * 16777216 + label[3] * 1048576
    + label[4] * 65536 + label[5] * 4096 + label[6] * 256 + label[7] * 16
    + label[8]

HexBytes(hex) == [i \in 1 .. Len(hex) |-> 16 * hex[i].digits[1] + hex[i].digits[2]]

\* A line of the dump as read: where it says it is and the bytes it shows;
\* a "*" stays what it is.
Read(l) ==
  IF l.kind = "line"
  THEN [kind |-> "line", pos |-> LabelValue(l.label), bytes |-> HexBytes(l.hex)]
  ELSE [kind |-> l.kind]

Shown == [i \in 1 .. Len(out) |-> Read(out[i])]

\* The last k lines shown, and the lines before them.
LastShown(k) == SubSeq(Shown, Len(Shown) - k + 1, Len(Shown))

\* The line that shows the stream's bytes at offsets a .. b-1, a full line of
\* zero bytes at offset a, and the "*" line.
LineOf(a, b) == [kind |-> "line", pos |-> a, bytes |-> Slice(a, b)]

ZeroLineAt(a) == [kind |-> "line", pos |-> a, bytes |-> Zeros(linesize)]

Star == [kind |-> "star"]

\* A run of k held lines of zero bytes that starts at offset a, as
\* the specification has it shown: three or more as one line and a "*".
RunShown(k, a) ==
  IF k > 2 THEN <<ZeroLineAt(a), Star>>
  ELSE [i \in 1 .. k |-> ZeroLineAt(a + (i - 1) * linesize)]

\* The number of whole lines of zero bytes that end at offset a, counted
\* back to the start offset.
RECURSIVE ZeroLinesBefore(_)
ZeroLinesBefore(a) ==
  IF a - linesize >= startoffset /\ IsZero(Slice(a - linesize, a))
  THEN 1 + ZeroLinesBefore(a - linesize)
  ELSE 0

\* What precedes the run that starts at offset a, k lines from the end of
\* the output: nothing when the run starts the dump, and otherwise the line
\* before it, which shows a non-zero byte.
RunBegins(k, a) ==
  IF a = startoffset THEN Len(Shown) = k
  ELSE /\ Len(Shown) > k
       /\ Shown[Len(Shown) - k] = LineOf(a - linesize, a)
       /\ ~IsZero(Slice(a - linesize, a))

(***************************************************************************)
(* C1.  Flush on interrupt: with autoskip, when a run of K >= 1 lines of   *)
(* zero bytes is ended by a line with a non-zero byte, the run is shown as *)
(* one full line of zeros at the run's start and one "*" if K > 2, and as  *)
(* K full lines of zeros at start, start + linesize otherwise; the line    *)
(* with the non-zero byte follows immediately, at its own position.        *)
(***************************************************************************)
\* The dump function has just handled a line with a non-zero byte.
Interrupted ==
  autoskip /\ pc = "dumpfileswithautoskip" /\ n > 0 /\ nonzero # 0

FlushOnInterrupt ==
  Interrupted =>
    LET at  == pos - n
        K   == ZeroLinesBefore(at)
        run == RunShown(K, at - K * linesize) \o <<LineOf(at, pos)>>
    IN K >= 1 =>
         /\ Len(Shown) >= Len(run)
         /\ LastShown(Len(run)) = run
         /\ RunBegins(Len(run), at - K * linesize)

\* The example: 16 bytes per line, 5 lines of zeros, one non-zero byte.
FlushOnInterruptWitness ==
  /\ Interrupted /\ linesize = 16 /\ ZeroLinesBefore(pos - n) = 5
  /\ Shown = <<ZeroLineAt(0), Star, [kind |-> "line", pos |-> 80, bytes |-> <<65>>]>>

(***************************************************************************)
(* C2.  Flush at the end of the stream: with autoskip, when the dump ends  *)
(* (end of input or limit) while H >= 1 lines of zero bytes are held, the  *)
(* first H - 1 of them are shown by the rule of C1 (one full line of zeros *)
(* at the run's start and one "*" if H - 1 > 2, each of them otherwise)    *)
(* and then the last held line is shown with its true length at the end    *)
(* position less that length.                                              *)
(***************************************************************************)
\* The dump with autoskip has ended and has dumped something.
Ended == autoskip /\ pc = "done" /\ RangeEnd > startoffset

\* The length of the last line of the dump.
LastLength == ((RangeEnd - startoffset - 1) % linesize) + 1

\* The number of lines held when the dump ends: the lines of zero bytes at
\* the end of the range dumped.
HeldAtEnd ==
  IF IsZero(Slice(RangeEnd - LastLength, RangeEnd))
  THEN 1 + ZeroLinesBefore(RangeEnd - LastLength)
  ELSE 0

InDumpFunction == pc \in {"dumpfiles", "dumpfileswithautoskip", "held"}

\* The indexes of the lines of the output that are not a "*".
LinesShown == {i \in 1 .. Len(Shown) : Shown[i].kind = "line"}

PositionLabels ==
  /\ pc = "initoutput" => pos = 0
  /\ pc = "dump" => pos <= startoffset /\ out = <<>>
  /\ InDumpFunction => pos = startoffset + (limit - maxinputlen)
  /\ \A i \in LinesShown :
       LET l == Shown[i] IN
       /\ l.pos >= startoffset
       /\ l.pos + Len(l.bytes) <= Len(Stream)
       /\ l.bytes = Slice(l.pos, l.pos + Len(l.bytes))
       /\ (i = 1 => l.pos = startoffset)
       /\ \A j \in LinesShown :
            j > i => /\ Shown[j].pos >= l.pos + Len(l.bytes)
                     /\ (j = i + 1 => Shown[j].pos = l.pos + Len(l.bytes))

PositionStep ==
  /\ pos' >= pos
  /\ pc = "dump" => pos' - pos \in {0, 1}
  /\ pc \in {"dumpfiles", "dumpfileswithautoskip"} =>
       /\ pos' - pos = maxinputlen - maxinputlen'
       /\ pc' = pc => pos' - pos = n'
  /\ pc \in {"held", "done", "exit"} => pos' = pos

PositionCounter == PositionLabels /\ [][PositionStep /\ PositionLabels']_vars

\* With autoskip and a start offset, lines have been shown before and after
\* a "*", at their offsets.
PositionCounterWitness ==
  /\ autoskip /\ pc = "done" /\ linesize = 1 /\ startoffset = 1 /\ pos = 7
  /\ Len(Shown) = 4 /\ Shown[3] = Star
  /\ Shown[1].pos = 1 /\ Shown[2].pos = 2 /\ Shown[4].pos = 6

(***************************************************************************)
(* SpecInput: the byte source.  Three files, each one empty or short, that *)
(* can or cannot be opened, read to the end and closed; all their bytes    *)
(* differ, so that a byte out of place shows.  Dumped without colors, with *)
(* and without --autoskip, from every start offset and with every limit    *)
(* within the bounds.                                                      *)
(***************************************************************************)
MaxInputLen == 1

MaxInputLine == 2

MaxInputStart == 2

MaxInputLimit == 2

\* The j-th byte of the i-th file: "A", "B", ... in the first file, "a",
\* "b", ... in the second, and so on.
InputByte(i, j) == 32 * (i + 1) + j

\* The files that can stand at place i of the command line.
InputFiles(i) ==
  {[kind |-> "noent", data |-> <<>>]}
    \cup {[kind |-> k, data |-> [j \in 1 .. len |-> InputByte(i, j)]]
            : k \in {"file", "ioerr", "closeerr"}, len \in 0 .. MaxInputLen}

InputOptions ==
  {[NoOptions EXCEPT !.c = c, !.s = s, !.l = l, !.a = a, !.N = TRUE,
                     !.files = <<f1, f2, f3>>]
     : c \in 1 .. MaxInputLine, s \in 0 .. MaxInputStart,
       l \in (0 .. MaxInputLimit) \cup {INT_MAX}, a \in BOOLEAN,
       f1 \in InputFiles(1), f2 \in InputFiles(2), f3 \in InputFiles(3)}

InitInput == \E o \in InputOptions : \E m \in parsecommandline(o) : Start(m)

SpecInput == InitInput /\ [][Next]_vars

\* The state in which the program starts with the options it has and the
\* files fs on its command line.
Restart(fs) ==
  [Machine EXCEPT
     !.files = fs, !.maxinputlen = limit, !.filenames = 1, !.currentfile = 0,
     !.fpos = 0, !.ferror = FALSE, !.opened = <<>>, !.exitcode = EXIT_SUCCESS,
     !.palette = <<>>, !.nextcolorfromset = 0, !.out = <<>>, !.err = <<>>,
     !.pc = "initoutput", !.pos = 0, !.ch = 0, !.n = 0, !.nonzero = 0,
     !.line = <<>>, !.linesheld = 0, !.lastheldsize = 0, !.holdpos = 0]

\* The bytes of the lines shown, in order.
RECURSIVE Flatten(_)
Flatten(ls) ==
  IF ls = <<>> THEN <<>>
  ELSE (IF Head(ls).kind = "line" THEN Head(ls).bytes ELSE <<>>) \o Flatten(Tail(ls))

(***************************************************************************)
(* C3.  Range selection: without autoskip the bytes shown are, in order,   *)
(* exactly the bytes of the stream at the offsets from the start offset to *)
(* the start offset plus the limit, cut at the end of the stream: at most  *)
(* limit bytes, no line for a limit of 0, and the first byte shown is the  *)
(* one at the start offset.                                                *)
(***************************************************************************)
RangeSelection ==
  (~autoskip /\ hexoutput) =>
    LET shown == Flatten(Shown) IN
    /\ Len(shown) <= limit
    /\ limit = 0 => out = <<>>
    /\ shown # <<>> => shown[1] = Stream[startoffset + 1]
    /\ shown = Slice(startoffset, startoffset + Len(shown))
    /\ pc \in {"done", "exit"} => shown = Slice(startoffset, RangeEnd)

\* A range that starts and ends inside the stream, in two files.
RangeSelectionWitness ==
  /\ ~autoskip /\ pc = "exit" /\ startoffset = 1 /\ limit = 2 /\ linesize = 2
  /\ Len(Stream) = 3 /\ RangeEnd = 3
  /\ Flatten(Shown) = <<InputByte(2, 1), InputByte(3, 1)>>

(***************************************************************************)
(* C4.  Concatenation transparency: without autoskip the lines written for *)
(* a list of files are the lines written for the one file that holds the   *)
(* concatenation of their contents; the end of a file neither starts a new *)
(* line nor shortens one.                                                  *)
(***************************************************************************)
ConcatenationTransparency ==
  (~autoskip /\ pc = "exit") =>
    out = main(Restart(<<[kind |-> "file", data |-> Stream]>>)).out

\* A line of two bytes, one from each of two files.
ConcatenationTransparencyWitness ==
  /\ ~autoskip /\ pc = "exit" /\ linesize = 2 /\ startoffset = 0
  /\ files[1].kind = "file" /\ files[2].kind = "file" /\ files[3].kind = "file"
  /\ files[1].data = <<>> /\ Len(files[2].data) = 1 /\ Len(files[3].data) = 1
  /\ Len(out) = 1
  /\ Shown[1].bytes = <<InputByte(2, 1), InputByte(3, 1)>>

(***************************************************************************)
(* C5.  Recoverable input failure: a file that cannot be opened, or whose  *)
(* reading or closing fails, is reported, the exit code becomes a failure, *)
(* and the dump goes on with the next file; what is written is what is     *)
(* written for the same list with an empty file in the place of each file  *)
(* that cannot be opened.                                                  *)
(***************************************************************************)
\* The files that have failed: those the program is past or out of.
Failed ==
  {i \in 1 .. Len(files) : i < filenames /\ files[i].kind \in {"noent", "ioerr", "closeerr"}}

EmptyForUnopenable ==
  [i \in 1 .. Len(files) |->
     IF files[i].kind = "noent" THEN [kind |-> "file", data |-> <<>>] ELSE files[i]]

RecoverableInputFailure ==
  /\ \A i \in Failed :
       /\ exitcode = EXIT_FAILURE
       /\ Cardinality({k \in 1 .. Len(err) : err[k] = i}) = 1
  /\ pc = "exit" =>
       /\ out = main(Restart(EmptyForUnopenable)).out
       /\ limit = INT_MAX => filenames = Len(files) + 1

\* A file that cannot be opened between two that are dumped.
RecoverableInputFailureWitness ==
  /\ pc = "exit" /\ linesize = 2 /\ startoffset = 0 /\ limit = INT_MAX
  /\ files[1].kind = "file" /\ files[2].kind = "noent" /\ files[3].kind = "file"
  /\ err = <<2>> /\ exitcode = EXIT_FAILURE
  /\ Len(out) = 1 /\ Shown[1].pos = 0
  /\ Shown[1].bytes = <<InputByte(1, 1), InputByte(3, 1)>>

(***************************************************************************)
(* SpecPalette: the colors.  One file of a few byte values (one of them    *)
(* not graphic, two graphic), dumped in colors as a hexdump, with and      *)
(* without --autoskip, and raw, with and without --ascii, on a terminal    *)
(* that has the colors and on one that lacks them.                         *)
(***************************************************************************)
MaxPaletteLen == 4

MaxPaletteLine == 2

MaxPaletteStart == 1

PaletteBytes == {0, 65, 66}

PaletteOptions ==
  {[NoOptions EXCEPT !.c = c, !.s = s, !.a = a, !.R = R, !.A = A,
                     !.term256 = term,
                     !.files = <<[kind |-> "file", data |-> d]>>]
     : c \in 1 .. MaxPaletteLine, s \in 0 .. MaxPaletteStart,
       a \in BOOLEAN, R \in BOOLEAN, A \in BOOLEAN, term \in BOOLEAN,
       d \in SeqsUpTo(PaletteBytes, MaxPaletteLen)}

InitPalette == \E o \in PaletteOptions : \E m \in parsecommandline(o) : Start(m)

SpecPalette == InitPalette /\ [][Next]_vars

\* The byte values that have been written in a color, each with the color
\* it was written in, in the order of the output: the hex column and the
\* text column of a line in colors, the colored bytes of a raw chunk (a
\* graphic byte is its own glyph).
Colored(l) ==
  IF l.kind = "line" /\ l.color
  THEN [i \in 1 .. Len(l.hex) |->
          [byte |-> 16 * l.hex[i].digits[1] + l.hex[i].digits[2],
           color |-> l.hex[i].color]]
       \o [i \in 1 .. Len(l.text) |->
             [byte |-> 16 * l.hex[i].digits[1] + l.hex[i].digits[2],
              color |-> l.text[i].color]]
  ELSE IF l.kind = "bytes"
  THEN LET cs == SelectSeq(l.cells, LAMBDA c : c.colored) IN
       [i \in 1 .. Len(cs) |-> [byte |-> cs[i].glyph[1], color |-> cs[i].color]]
  ELSE <<>>

RECURSIVE ColoredIn(_)
ColoredIn(ls) == IF ls = <<>> THEN <<>> ELSE Colored(Head(ls)) \o ColoredIn(Tail(ls))

AllColored == ColoredIn(out)

(***************************************************************************)
(* C7.  The palette is stable: once a byte value has a color, no step      *)
(* changes or clears it, and every occurrence of the byte value in the     *)
(* output, in the hex column and in the text column of any line, is        *)
(* written in that color.                                                  *)
(***************************************************************************)
PaletteHolds ==
  \A i \in 1 .. Len(AllColored) :
    /\ AllColored[i].color # 0
    /\ AllColored[i].color = paletteat(palette, AllColored[i].byte)

PaletteKept ==
  \A b \in Byte :
    paletteat(palette, b) # 0 => paletteat(palette', b) = paletteat(palette, b)

PaletteStable == PaletteHolds /\ [][PaletteKept /\ PaletteHolds']_vars

\* A byte value shown on two lines, with another one first shown between.
PaletteStableWitness ==
  /\ colorize /\ hexoutput /\ pc = "exit" /\ Len(out) = 3
  /\ HexBytes(out[1].hex) = <<65>> /\ HexBytes(out[2].hex) = <<66>>
  /\ HexBytes(out[3].hex) = <<65>>
  /\ out[1].hex[1].color = out[3].text[1].color
  /\ out[1].hex[1].color # out[2].hex[1].color

(***************************************************************************)
(* C8.  The order of assignment.  As claimed: colors are handed out in the *)
(* order of colorset starting from its first entry, so the n-th distinct   *)
(* colored byte value first seen in the output has the n-th entry.         *)
(* As the program has it: byte 0 has the first entry from the start,       *)
(* whether it occurs or not, and the n-th distinct non-zero colored byte   *)
(* value first seen has entry n + 1, whatever its value.                   *)
(***************************************************************************)
\* The distinct values of a sequence of bytes in the order they first occur.
RECURSIVE FirstSeen(_, _)
FirstSeen(bs, seen) ==
  IF bs = <<>> THEN seen
  ELSE FirstSeen(Tail(bs),
                 IF \E k \in 1 .. Len(seen) : seen[k] = Head(bs)
                 THEN seen ELSE Append(seen, Head(bs)))

ColoredBytes == [i \in 1 .. Len(AllColored) |-> AllColored[i].byte]

\* The claim as made.
PaletteOrderFromFirstSlot ==
  colorize =>
    LET seen == FirstSeen(ColoredBytes, <<>>) IN
    \A k \in 1 .. Len(seen) : paletteat(palette, seen[k]) = colorset[k]

\* The claim as amended.
PaletteOrder ==
  (colorize /\ pc # "initoutput" /\ term256) =>
    LET seen == FirstSeen(SelectSeq(ColoredBytes, LAMBDA b : b # 0), <<>>) IN
    /\ paletteat(palette, 0) = colorset[1]
    /\ \A k \in 1 .. Len(seen) : paletteat(palette, seen[k]) = colorset[k + 1]
    /\ nextcolorfromset = 1 + Len(seen)
    /\ DOMAIN palette = {0} \cup {seen[k] : k \in 1 .. Len(seen)}

\* "B" is first seen before "A", without a zero byte: "B" has the second
\* color and "A" the third.
PaletteOrderWitness ==
  /\ colorize /\ pc = "exit" /\ ColoredBytes # <<>>
  /\ FirstSeen(ColoredBytes, <<>>) = <<66, 65>>
  /\ paletteat(palette, 66) = colorset[2] /\ paletteat(palette, 65) = colorset[3]

(***************************************************************************)
(* SpecRender: the columns of a hexdump line.  One file of "A"s, dumped    *)
(* with and without colors at line sizes and group sizes from the smallest *)
(* to the largest the options accept, the defaults among them.             *)
(***************************************************************************)
MaxRenderLen == 5

MaxRenderLine == 3

MaxRenderGroup == 3

MaxRenderStart == 1

RenderLines == (0 .. MaxRenderLine) \cup {MaxLineSize}

RenderGroups == (0 .. MaxRenderGroup) \cup {INT_MAX - 1, INT_MAX}

RenderLengths == (0 .. MaxRenderLen) \cup {DefaultLineSize + MaxRenderLen}

RenderOptions ==
  {[NoOptions EXCEPT !.c = c, !.g = g, !.s = s, !.a = a, !.N = N,
                     !.files = <<[kind |-> "file", data |-> [i \in 1 .. k |-> 65]]>>]
     : c \in RenderLines, g \in RenderGroups, s \in 0 .. MaxRenderStart,
       a \in BOOLEAN, N \in BOOLEAN, k \in RenderLengths}

InitRender == \E o \in RenderOptions : \E m \in parsecommandline(o) : Start(m)

SpecRender == InitRender /\ [][Next]_vars

\* The characters a hexdump line has between its label (with the colon) and
\* its first glyph: the hex digits with their separators, the padding and
\* the two blanks.
RECURSIVE HexColumn(_)
HexColumn(cells) ==
  IF cells = <<>> THEN 0
  ELSE (IF Head(cells).sep THEN 3 ELSE 2) + HexColumn(Tail(cells))

GlyphOffset(l) == HexColumn(l.hex) + StarWidth(l.pad) + 2

\* ceil(a / b) for a >= 0 and b >= 1.
Ceil(a, b) == (a \div b) + (IF a % b = 0 THEN 0 ELSE 1)

(***************************************************************************)
(* C9.  Column alignment: on every line of a hexdump, with and without     *)
(* colors, the characters between the label and the first glyph number     *)
(* 2 * linesize + ceil(linesize / groupsize) + 2, however many bytes the   *)
(* line has, and the width of the padding is not negative.                 *)
(***************************************************************************)
ColumnAlignment ==
  \A k \in 1 .. Len(out) :
    out[k].kind = "line" =>
      /\ out[k].pad >= 0
      /\ GlyphOffset(out[k]) = 2 * linesize + Ceil(linesize, groupsize) + 2

(***************************************************************************)
(* SpecGlyph: the text column.  One file of two bytes, every byte value    *)
(* with the next one, dumped with and without --ascii as a hexdump with    *)
(* and without colors, and raw.                                            *)
(***************************************************************************)
MaxGlyphStart == 1

GlyphOptions ==
  {[NoOptions EXCEPT !.s = s, !.a = a, !.N = N, !.R = R, !.A = A,
                     !.files = <<[kind |-> "file", data |-> <<b, (b + 1) % 256>>]>>]
     : s \in 0 .. MaxGlyphStart, a \in BOOLEAN, N \in BOOLEAN, R \in BOOLEAN,
       A \in BOOLEAN, b \in Byte}

InitGlyph == \E o \in GlyphOptions : \E m \in parsecommandline(o) : Start(m)

SpecGlyph == InitGlyph /\ [][Next]_vars

\* The glyphs written, each with the byte it stands for, in the order of
\* the output: the text column of a hexdump line (its bytes are those of
\* the hex column), the colored bytes of a raw chunk (which come from
\* getbyterepresentation() too; the others are written as they are).
Glyphs(l) ==
  IF l.kind = "line"
  THEN [i \in 1 .. Len(l.text) |->
          [byte |-> 16 * l.hex[i].digits[1] + l.hex[i].digits[2],
           glyph |-> l.text[i].glyph]]
  ELSE IF l.kind = "bytes"
  THEN LET cs == SelectSeq(l.cells, LAMBDA c : c.colored) IN
       [i \in 1 .. Len(cs) |-> [byte |-> cs[i].glyph[1], glyph |-> cs[i].glyph]]
  ELSE <<>>

RECURSIVE GlyphsIn(_)
GlyphsIn(ls) == IF ls = <<>> THEN <<>> ELSE Glyphs(Head(ls)) \o GlyphsIn(Tail(ls))

AllGlyphs == GlyphsIn(out)

\* The control byte values of the claim, and the C1 controls among them.
ControlBytes == (0 .. 31) \cup {127} \cup (128 .. 160)

C1Bytes == 128 .. 159

(***************************************************************************)
(* C10.  Glyph mapping.  In each mode a byte value has one glyph, of one   *)
(* to three bytes, whatever the line, the column, the color or the place   *)
(* in the stream.  As claimed: in the extended mode no two control byte    *)
(* values (0-31, 127, 128-160) have the same glyph.  As the program has    *)
(* it: the byte values 128-159 all have one glyph, and that is the only    *)
(* collision of the extended mode: two byte values have the same glyph     *)
(* only when both are in 128-159.                                          *)
(***************************************************************************)
GlyphIsFunction ==
  \A i \in 1 .. Len(AllGlyphs) :
    /\ AllGlyphs[i].glyph = getbyterepresentation(useunicode, AllGlyphs[i].byte)
    /\ Len(AllGlyphs[i].glyph) \in 1 .. 3
    /\ \A j \in 1 .. Len(AllGlyphs) :
         AllGlyphs[i].byte = AllGlyphs[j].byte => AllGlyphs[i].glyph = AllGlyphs[j].glyph

\* The claim as made.
GlyphMappingNoCollision ==
  /\ GlyphIsFunction
  /\ useunicode =>
       \A i, j \in 1 .. Len(AllGlyphs) :
         (/\ AllGlyphs[i].byte \in ControlBytes
          /\ AllGlyphs[j].byte \in ControlBytes
          /\ AllGlyphs[i].byte # AllGlyphs[j].byte)
         => AllGlyphs[i].glyph # AllGlyphs[j].glyph

\* The claim as amended: a glyph shown for a byte is the glyph of another
\* byte value only when both are C1 controls, and those all share one.
GlyphMapping ==
  /\ GlyphIsFunction
  /\ useunicode =>
       \A i \in 1 .. Len(AllGlyphs) : \A c \in Byte :
         (c # AllGlyphs[i].byte /\ getbyterepresentation(TRUE, c) = AllGlyphs[i].glyph)
         <=> (c # AllGlyphs[i].byte /\ c \in C1Bytes /\ AllGlyphs[i].byte \in C1Bytes)

\* The last C1 control and the no-break space on one line: two glyphs.
GlyphMappingWitness ==
  /\ useunicode /\ hexoutput /\ pc = "exit" /\ Len(out) = 1
  /\ HexBytes(out[1].hex) = <<159, 160>>
  /\ out[1].text[1].glyph = <<226, 144, 166>>
  /\ out[1].text[2].glyph = <<226, 144, 163>>

(***************************************************************************)
(* C11.  Skip past end: when the stream ends while the bytes before the    *)
(* start offset are skipped, dump() returns at once: no line is written,   *)
(* no dump function is entered, and the exit code is a failure only when   *)
(* a file on the way has failed.                                           *)
(***************************************************************************)
\* The stream is shorter than the start offset.
EndsInSkip == Len(Stream) < startoffset

\* The files that fail when they are read to the end.
Failing == {i \in 1 .. Len(files) : files[i].kind \in {"noent", "ioerr", "closeerr"}}

SkippedPastEnd ==
  (EndsInSkip /\ pc \in {"done", "exit"}) =>
    /\ out = <<>>
    /\ pos = Len(Stream) /\ maxinputlen = limit
    /\ filenames = Len(files) + 1
    /\ exitcode = (IF Failing = {} THEN EXIT_SUCCESS ELSE EXIT_FAILURE)
    /\ \A i \in 1 .. Len(files) :
         Cardinality({k \in 1 .. Len(err) : err[k] = i}) = (IF i \in Failing THEN 1 ELSE 0)

SkipStops ==
  (EndsInSkip /\ pc = "dump") =>
    /\ pos <= Len(Stream) /\ out = <<>>
    /\ pos = Len(Stream) => pc' = "done" /\ pos' = pos /\ out' = <<>>
    /\ pos < Len(Stream) => pc' = "dump" /\ pos' = pos + 1

SkipPastEnd == SkippedPastEnd /\ [][SkipStops /\ SkippedPastEnd']_vars

\* The one byte of the stream has been skipped and the second was to be;
\* the first file could not be opened.
SkipPastEndWitness ==
  /\ pc = "exit" /\ startoffset = 2 /\ Len(Stream) = 1 /\ pos = 1
  /\ files[1].kind = "noent" /\ files[2].kind = "file" /\ files[3].kind = "file"
  /\ out = <<>> /\ err = <<1>> /\ exitcode = EXIT_FAILURE

(***************************************************************************)
(* C12.  Raw mode.  What is written is one chunk per line read, each       *)
(* followed by one reset, without label, "*" or newline; the cells of the  *)
(* chunks are the bytes of the stream from the start offset on, in order.  *)
(* As claimed: a byte that is a control or whitespace character is written *)
(* as it is, without color and without taking a color of the palette, and  *)
(* every other byte is written as its glyph in its color.  As the program  *)
(* has it: the bytes written as glyphs in colors are the graphic           *)
(* characters of ASCII (33 .. 126); every other byte, the bytes above 126  *)
(* included, is written as it is.                                          *)
(***************************************************************************)
\* The cells of the chunks written, in order.
RECURSIVE CellsIn(_)
CellsIn(ls) ==
  IF ls = <<>> THEN <<>>
  ELSE (IF Head(ls).kind = "bytes" THEN Head(ls).cells ELSE <<>>) \o CellsIn(Tail(ls))

\* Cell c shows byte b as it is, and b has no color of its own.
WrittenUnchanged(c, b) ==
  ~c.colored /\ c.byte = b /\ (b # 0 => paletteat(palette, b) = 0)

\* Cell c shows byte b as its glyph in its color.
WrittenColored(c, b) ==
  /\ c.colored /\ c.glyph = getbyterepresentation(useunicode, b)
  /\ c.color # 0 /\ c.color = paletteat(palette, b)

\* The chunks written are the stream from the start offset on, each byte
\* written unchanged when it is in the set plain and in color otherwise.
RawChunks(plain) ==
  LET cells == CellsIn(out) IN
  /\ \A k \in 1 .. Len(out) : out[k].kind = "bytes" /\ out[k].cells # <<>>
  /\ startoffset + Len(cells) <= Len(Stream)
  /\ pc \in {"done", "exit"} => startoffset + Len(cells) = RangeEnd
  /\ \A i \in 1 .. Len(cells) :
       LET b == Stream[startoffset + i] IN
       IF b \in plain THEN WrittenUnchanged(cells[i], b)
       ELSE WrittenColored(cells[i], b)

\* The claim as made, with every byte that can be called a control or a
\* whitespace character (in ASCII or in Latin-1) taken for one.
RawModeControls == ~hexoutput => RawChunks(ControlBytes \cup {32})

\* The claim as amended.
RawMode == ~hexoutput => RawChunks(Byte \ (33 .. 126))

\* "~" and DEL: the first in its color, the second as it is.
RawModeWitness ==
  /\ ~hexoutput /\ pc = "exit" /\ startoffset = 0 /\ Len(out) = 1
  /\ Stream = <<126, 127>>
  /\ out[1].cells[1].colored /\ out[1].cells[1].glyph = <<126>>
  /\ out[1].cells[2] = [colored |-> FALSE, byte |-> 127]

(***************************************************************************)
(* C13.  The comment of dumpfileswithautoskip(): when the end of the input *)
(* is reached while H lines of zero bytes are held, all of them but the    *)
(* first and the last are omitted: of the held lines, the output shows the *)
(* first and the last and no other (one line for H = 1, both for H = 2).   *)
(***************************************************************************)
\* The offsets of the lines shown from offset a on.
ShownFrom(a) == {Shown[i].pos : i \in {j \in LinesShown : Shown[j].pos >= a}}

HeldLinesOmitted ==
  (Ended /\ HeldAtEnd >= 1) =>
    LET lastat == RangeEnd - LastLength
        start  == lastat - (HeldAtEnd - 1) * linesize
    IN ShownFrom(start) = {start, lastat}

(***************************************************************************)
(* SpecFull: every byte value in one run.  One file that holds the 256     *)
(* byte values in ascending order from some first value on, once or with   *)
(* the first of them again at its end, dumped in colors as a hexdump, with *)
(* and without --autoskip, and raw, at 16 and at 64 bytes per line.        *)
(***************************************************************************)
MaxFullFirst == 2

MaxFullAgain == 16

MaxFullStart == 1

FullLine == 64

FullData(first, again) == [i \in 1 .. 256 + again |-> (first + i - 1) % 256]

FullOptions ==
  {[NoOptions EXCEPT !.c = c, !.s = s, !.a = a, !.R = R,
                     !.files = <<[kind |-> "file", data |-> FullData(first, again)]>>]
     : c \in {0, FullLine}, s \in 0 .. MaxFullStart, a \in BOOLEAN, R \in BOOLEAN,
       first \in 0 .. MaxFullFirst, again \in {0, MaxFullAgain}}

InitFull == \E o \in FullOptions : \E m \in parsecommandline(o) : Start(m)

SpecFull == InitFull /\ [][Next]_vars

(***************************************************************************)
(* C14.  The palette lookup never faults.  No entry of colorset is 0, the  *)
(* value that means unassigned, so a byte value that has a color is never  *)
(* given another: the colors taken from colorset number as many as the     *)
(* byte values that have one, at most 256, and every index at which        *)
(* colorset is read is in 0 .. 255.                                        *)
(***************************************************************************)
SlotsConsumed ==
  /\ \A i \in 1 .. Len(colorset) : colorset[i] # 0
  /\ Len(colorset) = 256
  /\ \A b \in DOMAIN palette : b \in Byte /\ palette[b] # 0
  /\ (colorize /\ term256 /\ pc # "initoutput") =>
       /\ 0 \in DOMAIN palette
       /\ nextcolorfromset = Cardinality(DOMAIN palette)
       /\ nextcolorfromset <= 256

\* A step reads colorset at the indexes nextcolorfromset .. nextcolorfromset' - 1
\* (and at 0 in initoutput()), one for each byte value that gets its color.
SlotsRead ==
  /\ nextcolorfromset' >= nextcolorfromset
  /\ \A i \in nextcolorfromset .. nextcolorfromset' - 1 : i \in 0 .. 255
  /\ pc # "initoutput" =>
       nextcolorfromset' - nextcolorfromset
         = Cardinality((DOMAIN palette') \ (DOMAIN palette))

PaletteNeverFaults == SlotsConsumed /\ [][SlotsRead /\ SlotsConsumed']_vars

\* All 256 byte values have a color, and the last index read is 255.
PaletteNeverFaultsWitness ==
  /\ colorize /\ hexoutput /\ pc = "exit"
  /\ DOMAIN palette = Byte /\ nextcolorfromset = 256
  /\ Len(files[1].data) = 256 + MaxFullAgain

(***************************************************************************)
(* C15.  The held run.  In dumpfileswithautoskip(), after a line with a    *)
(* non-zero byte no line is held; while lines are held, linesheld is the   *)
(* number of lines of zero bytes read since the last line with a non-zero  *)
(* byte (or the start), holdpos is the offset of the first of them,        *)
(* lastheldsize is the length of the last of them, and the last of them    *)
(* is at holdpos + (linesheld - 1) * linesize.                             *)
(***************************************************************************)
InAutoskip == pc \in {"dumpfileswithautoskip", "held"}

\* The length of the line read last, and the number of lines of zero bytes
\* that the bytes read so far end with.
LastRead == IF pos = startoffset THEN 0 ELSE ((pos - startoffset - 1) % linesize) + 1

ZeroLinesRead ==
  IF pos = startoffset THEN 0
  ELSE IF IsZero(Slice(pos - LastRead, pos)) THEN 1 + ZeroLinesBefore(pos - LastRead)
  ELSE 0

HeldRunState ==
  InAutoskip =>
    /\ linesheld = ZeroLinesRead
    /\ (pos > startoffset /\ ~IsZero(Slice(pos - LastRead, pos))) => linesheld = 0
    /\ linesheld > 0 =>
         /\ lastheldsize = LastRead
         /\ holdpos = (pos - LastRead) - (linesheld - 1) * linesize
         /\ holdpos + (linesheld - 1) * linesize = pos - lastheldsize
         /\ holdpos >= startoffset
         /\ IsZero(Slice(holdpos, pos))
         /\ holdpos > startoffset => ~IsZero(Slice(holdpos - linesize, holdpos))

\* A line read is held after the lines held before it, or ends their run.
HeldRunStep ==
  (pc = "dumpfileswithautoskip" /\ pc' = "dumpfileswithautoskip") =>
    IF nonzero' # 0 THEN linesheld' = 0
    ELSE /\ linesheld' = linesheld + 1
         /\ lastheldsize' = n'
         /\ holdpos' = (IF linesheld = 0 THEN pos ELSE holdpos)

HeldRun == HeldRunState /\ [][HeldRunStep /\ HeldRunState']_vars

\* Three lines are held after a line of two "A"s, the last of them short.
HeldRunWitness ==
  /\ pc = "dumpfileswithautoskip" /\ linesize = 2 /\ startoffset = 0
  /\ Stream = <<65, 65, 0, 0, 0, 0, 0>> /\ pos = 7
  /\ linesheld = 3 /\ holdpos = 2 /\ lastheldsize = 1

(***************************************************************************)
(* C16.  The input cursor.  filenames only moves forward, past one file at *)
(* a time; every file is opened at most once, in the order of the command  *)
(* line, and no file is open while another is; nextbyte() returns EOF only *)
(* when filenames is past the last file, and then every further call       *)
(* returns EOF and changes nothing.                                        *)
(***************************************************************************)
Exhausted == filenames = Len(files) + 1 /\ currentfile = 0

CursorState ==
  /\ filenames \in 1 .. Len(files) + 1
  /\ opened = [i \in 1 .. Len(opened) |-> i]
  /\ currentfile \in {0, filenames}
  /\ currentfile # 0 => currentfile <= Len(files) /\ files[currentfile].kind # "noent"
  /\ Len(opened) = (IF currentfile = 0 THEN filenames - 1 ELSE filenames)
  /\ ch = EOF => Exhausted
  /\ Exhausted => nextbyte(Machine) = [ch |-> EOF, m |-> Machine]

CursorStep ==
  /\ filenames' >= filenames
  /\ Len(opened') >= Len(opened)
  /\ (pc = "dump" /\ pc' = "done") => Exhausted'
  /\ Exhausted => Exhausted' /\ opened' = opened /\ err' = err

CursorDiscipline == CursorState /\ [][CursorStep /\ CursorState']_vars

\* Three files, the second of which cannot be opened, have been read to
\* the end.
CursorDisciplineWitness ==
  /\ pc = "exit" /\ limit = INT_MAX /\ ch = EOF /\ Exhausted
  /\ files[1].kind = "file" /\ files[2].kind = "noent" /\ files[3].kind = "ioerr"
  /\ Len(files[1].data) = 1 /\ Len(files[3].data) = 1
  /\ opened = <<1, 2, 3>> /\ err = <<2, 3>>

(***************************************************************************)
(* C17.  Termination.  The program is one sequential process: whenever it  *)
(* has a step to take it takes it (weak fairness of Next).  For every list *)
(* of files, start offset and limit, whatever fails, with and without      *)
(* --autoskip, the program reaches its exit.                               *)
(*                                                                         *)
(* SpecLive: two files, each one empty or short, that can or cannot be     *)
(* opened, read to the end and closed; the first holds zero bytes, so that *)
(* lines are held with --autoskip.                                         *)
(***************************************************************************)
MaxLiveLen == 1

MaxLiveLine == 1

MaxLiveStart == 1

MaxLiveLimit == 1

LiveOptions ==
  {[NoOptions EXCEPT !.c = c, !.s = s, !.l = l, !.a = a, !.N = TRUE,
                     !.files = <<f1, f2>>]
     : c \in 1 .. MaxLiveLine, s \in 0 .. MaxLiveStart,
       l \in (0 .. MaxLiveLimit) \cup {INT_MAX}, a \in BOOLEAN,
       f1 \in {[kind |-> "noent", data |-> <<>>]}
                \cup {[kind |-> k, data |-> [j \in 1 .. len |-> (j - 1) * InputByte(1, j)]]
                        : k \in {"file", "ioerr", "closeerr"}, len \in 0 .. MaxLiveLen},
       f2 \in {[kind |-> "noent", data |-> <<>>]}
                \cup {[kind |-> k, data |-> [j \in 1 .. len |-> InputByte(2, j)]]
                        : k \in {"file", "ioerr", "closeerr"}, len \in 0 .. MaxLiveLen}}

InitLive == \E o \in LiveOptions : \E m \in parsecommandline(o) : Start(m)

\* The program has a step to take that changes its state.  It is
\* deterministic: the step it takes from a state is step(Machine), so this
\* is ENABLED <<Next>>_vars.
CanStep == pc # "exit" /\ step(Machine) # Machine

\* Weak fairness of the program's steps: of initoutput(), of the call of
\* the dump function and of the return of main(), and, with ENABLED written
\* as CanStep, of every step (WF_vars(Next)).
Fairness ==
  /\ WF_vars(InitOutput) /\ WF_vars(DumpCall) /\ WF_vars(MainReturn)
  /\ []<>(~CanStep) \/ []<><<Next>>_vars

SpecLive == InitLive /\ [][Next]_vars /\ Fairness

Termination == <>(pc = "exit")

\* The dump of two files that cannot be opened has ended, with autoskip.
TerminationWitness ==
  /\ pc = "exit" /\ autoskip /\ startoffset = 1
  /\ \A i \in 1 .. Len(files) : files[i].kind = "noent"
  /\ err = <<1, 2>> /\ out = <<>> /\ exitcode = EXIT_FAILURE

(***************************************************************************)
(* SpecChunk: lines across files.  Three files, each one missing, empty or *)
(* short, readable to the end or not, of zero bytes or of other bytes;     *)
(* dumped without colors, with and without --autoskip, one or more bytes   *)
(* per line, from every start offset and with every limit within the       *)
(* bounds.                                                                 *)
(***************************************************************************)
MaxChunkLen == 1

MaxChunkLine == 2

MaxChunkStart == 1

MaxChunkLimit == 2

ChunkFiles(i) ==
  {[kind |-> "noent", data |-> <<>>]}
    \cup {[kind |-> k, data |-> [j \in 1 .. len |-> z * InputByte(i, j)]]
            : k \in {"file", "ioerr"}, len \in 0 .. MaxChunkLen, z \in {0, 1}}

ChunkOptions ==
  {[NoOptions EXCEPT !.c = c, !.s = s, !.l = l, !.a = a, !.N = TRUE,
                     !.files = <<f1, f2, f3>>]
     : c \in 1 .. MaxChunkLine, s \in 0 .. MaxChunkStart,
       l \in (0 .. MaxChunkLimit) \cup {INT_MAX}, a \in BOOLEAN,
       f1 \in ChunkFiles(1), f2 \in ChunkFiles(2), f3 \in ChunkFiles(3)}

InitChunk == \E o \in ChunkOptions : \E m \in parsecommandline(o) : Start(m)

SpecChunk == InitChunk /\ [][Next]_vars

(***************************************************************************)
(* C18.  Full lines: every line a dump function reads holds exactly        *)
(* linesize bytes of the stream, whatever files they come from and         *)
(* whichever files are empty or fail, except the last line of the dump; a  *)
(* shorter line is read only when the stream or the limit ends with it,    *)
(* and no line is read after that.  So the lines of zero bytes held by     *)
(* autoskip are all of the full size but the last one of the dump.         *)
(***************************************************************************)
InLoop == pc \in {"dumpfiles", "dumpfileswithautoskip"}

\* A dump function reads a line: the n' bytes of the stream at pos.
ChunkRead ==
  InLoop /\ pc' = pc =>
    /\ n' \in 1 .. linesize
    /\ pos' = pos + n'
    /\ linebuf(Machine', n') = Slice(pos, pos')
    /\ n' < linesize => pos' = RangeEnd

\* Where the stream or the limit has ended, no line is read.
ChunkLast == InLoop /\ pos = RangeEnd => pc' # pc

\* The lines held are the bytes from holdpos to pos: full lines of zero
\* bytes and the last line read, which is short only at the end of the dump.
ChunkHeld ==
  pc \in {"dumpfileswithautoskip", "held"} /\ linesheld >= 1 =>
    /\ lastheldsize \in 1 .. linesize
    /\ pos - holdpos = (linesheld - 1) * linesize + lastheldsize
    /\ IsZero(Slice(holdpos, pos))
    /\ lastheldsize < linesize => pos = RangeEnd

FullChunks == ChunkHeld /\ [][ChunkRead /\ ChunkLast /\ ChunkHeld']_vars

\* A full line of zero bytes has been read from the first and the third
\* file, past a second one that cannot be opened, and is held.
FullChunksWitness ==
  /\ pc = "dumpfileswithautoskip" /\ linesize = 2 /\ startoffset = 0
  /\ files[1].data = <<0>> /\ files[2].kind = "noent"
  /\ files[3].data = <<0>> /\ files[3].kind = "ioerr"
  /\ n = 2 /\ linesheld = 1 /\ lastheldsize = 2 /\ pos = 2
  /\ err = <<2>>

(***************************************************************************)
(* C19.  Autoskip only removes lines: the lines of a dump with autoskip    *)
(* that are not a "*" are lines of the dump of the same input with the     *)
(* same options without autoskip, each one the same in position, length    *)
(* and bytes, and in the same order; every line with a non-zero byte and   *)
(* the last line of the dump are among them, so the lines left out are     *)
(* lines of zero bytes only.                                               *)
(***************************************************************************)
\* The dump of the same input without autoskip.
Plain == main([Restart(files) EXCEPT !.autoskip = FALSE]).out

\* The lines of the output that are not a "*".
Kept == SelectSeq(out, LAMBDA l : l.kind # "star")

\* a can be had from b by leaving elements out.
RECURSIVE IsSubSeq(_, _)
IsSubSeq(a, b) ==
  IF a = <<>> THEN TRUE
  ELSE IF b = <<>> THEN FALSE
  ELSE IF Head(a) = Head(b) THEN IsSubSeq(Tail(a), Tail(b))
  ELSE IsSubSeq(a, Tail(b))

AutoskipOnlyRemoves ==
  autoskip /\ pc = "done" =>
    LET plain == Plain
        kept  == Kept
    IN /\ IsSubSeq(kept, plain)
       /\ \A i \in 1 .. Len(plain) :
            i = Len(plain) \/ ~IsZero(Read(plain[i]).bytes)
              => \E j \in 1 .. Len(kept) : kept[j] = plain[i]
       /\ (\E i \in 1 .. Len(out) : out[i].kind = "star") => Len(kept) < Len(plain)

\* The example: of the six lines of the dump without autoskip, the first
\* and the last are shown.
AutoskipOnlyRemovesWitness ==
  /\ autoskip /\ pc = "done" /\ linesize = 16
  /\ Len(Plain) = 6 /\ Len(out) = 3
  /\ out[1] = Plain[1] /\ out[2].kind = "star" /\ out[3] = Plain[6]

(***************************************************************************)
(* SpecMarker: several runs of zero lines.  One file of zero and non-zero  *)
(* bytes, long enough for two runs of three lines, dumped in colors or     *)
(* raw, with and without --autoskip, from every start offset within the    *)
(* bounds.                                                                 *)
(***************************************************************************)
MaxMarkerLen == 8

MaxMarkerLine == 1

MaxMarkerStart == 1

MarkerOptions ==
  {[NoOptions EXCEPT !.c = c, !.s = s, !.a = a, !.R = R,
                     !.files = <<[kind |-> "file", data |-> d]>>]
     : c \in 1 .. MaxMarkerLine, s \in 0 .. MaxMarkerStart,
       a \in BOOLEAN, R \in BOOLEAN,
       d \in SeqsUpTo(ZeroBytes, MaxMarkerLen)}

InitMarker == \E o \in MarkerOptions : \E m \in parsecommandline(o) : Start(m)

SpecMarker == InitMarker /\ [][Next]_vars

(***************************************************************************)
(* C20.  The place of the "*": a "*" is shown only in a hex dump with      *)
(* autoskip (a raw dump has no autoskip); it comes immediately after a     *)
(* full line of zero bytes and immediately before a line of the dump, so   *)
(* it is never the first or the last line and no two of them are adjacent; *)
(* and a run of zero lines has at most one: between two of them a line     *)
(* with a non-zero byte is shown.                                          *)
(***************************************************************************)
\* The indexes of the "*" lines of the output.
Markers == {i \in 1 .. Len(out) : out[i].kind = "star"}

MarkerPlacement ==
  /\ ~hexoutput => ~autoskip
  /\ Markers # {} => hexoutput /\ autoskip
  /\ \A i \in Markers :
       /\ i > 1 /\ Shown[i - 1] \in {ZeroLineAt(a) : a \in startoffset .. pos}
       /\ i < Len(out) /\ out[i + 1].kind = "line"
  /\ \A i, j \in Markers :
       i < j => \E k \in i + 1 .. j - 1 :
                  Shown[k].kind = "line" /\ ~IsZero(Shown[k].bytes)

\* Two runs of three and four zero lines, each shown as a line and a "*".
MarkerPlacementWitness ==
  /\ pc = "done" /\ linesize = 1 /\ startoffset = 0
  /\ Stream = <<0, 0, 0, 65, 0, 0, 0, 0>>
  /\ Shown = <<ZeroLineAt(0), Star, LineOf(3, 4), ZeroLineAt(4), Star, LineOf(7, 8)>>

(***************************************************************************)
(* C21.  Colors do not depend on autoskip: when a dump with autoskip has   *)
(* ended, every byte value has the color it has at the end of the dump of  *)
(* the same input with the same options without autoskip, the same number  *)
(* of colors has been handed out, and every byte shown, in the lines of    *)
(* zero bytes that autoskip makes up as well, is written in that color.    *)
(***************************************************************************)
\* The program run to its end on the same input without autoskip.
PlainRun == main([Restart(files) EXCEPT !.autoskip = FALSE])

ColorsWithoutAutoskip ==
  autoskip /\ colorize /\ pc = "done" =>
    LET plain == PlainRun IN
    /\ palette = plain.palette
    /\ nextcolorfromset = plain.nextcolorfromset
    /\ \A i \in 1 .. Len(AllColored) :
         /\ AllColored[i].color # 0
         /\ AllColored[i].color = paletteat(plain.palette, AllColored[i].byte)

\* Three lines of zero bytes are shown as one line and a "*", and the "A"
\* after them has the second color, as without autoskip.
ColorsWithoutAutoskipWitness ==
  /\ autoskip /\ colorize /\ pc = "done" /\ linesize = 1 /\ startoffset = 0
  /\ Stream = <<0, 0, 0, 65>>
  /\ Len(out) = 3 /\ out[2].kind = "star" /\ Len(PlainRun.out) = 4
  /\ out[1].hex[1].color = colorset[1] /\ out[3].hex[1].color = colorset[2]
  /\ paletteat(PlainRun.palette, 65) = colorset[2]

(***************************************************************************)
(* C22.  The exit status: the program's exit code is EXIT_FAILURE if and   *)
(* only if a failure to open, read or close a file has been reported; no   *)
(* step sets it back or takes a report back; and once the limit has been   *)
(* reached no file is opened and nothing is reported, so that a file that  *)
(* starts at or after the end of the range asked for is never opened,      *)
(* never reported and does not count in the exit code.                     *)
(***************************************************************************)
\* The offset in the stream at which file i starts.
Before(i) == Len(Concat(SubSeq(files, 1, i - 1)))

\* The files that have been opened (or tried), and those reported.
Opened == {opened[k] : k \in 1 .. Len(opened)}

Reported == {err[k] : k \in 1 .. Len(err)}

\* The program has ended in initoutput(), before the dump, for want of
\* colors.
Aborted == colorize /\ ~term256 /\ pc = "exit"

ExitState ==
  /\ exitcode \in {EXIT_SUCCESS, EXIT_FAILURE}
  /\ ~Aborted => (exitcode = EXIT_FAILURE <=> err # <<>>)
  /\ Reported \subseteq Opened
  /\ \A i \in Reported : files[i].kind \in {"noent", "ioerr", "closeerr"}
  /\ \A i \in 1 .. Len(files) :
       Before(i) - startoffset >= limit => i \notin Opened /\ i \notin Reported

ExitStep ==
  /\ exitcode = EXIT_FAILURE => exitcode' = EXIT_FAILURE
  /\ Len(err') >= Len(err) /\ SubSeq(err', 1, Len(err)) = err
  /\ pc \notin {"initoutput", "dump"} /\ maxinputlen = 0 =>
       opened' = opened /\ err' = err /\ exitcode' = exitcode

ExitStatus == ExitState /\ [][ExitStep /\ ExitState']_vars

\* The first file cannot be opened and is reported; the limit is reached
\* in the second one; the third, which cannot be opened either, is not
\* tried.
ExitStatusWitness ==
  /\ pc = "exit" /\ startoffset = 0 /\ limit = 1
  /\ files[1].kind = "noent" /\ files[2].kind = "file" /\ Len(files[2].data) = 1
  /\ files[3].kind = "noent"
  /\ opened = <<1, 2>> /\ err = <<1>> /\ exitcode = EXIT_FAILURE
  /\ Len(out) = 1

====
